---- MODULE Spec2Model ----
(***************************************************************************)
(* A model of the diagnostic and call-trace reporting code of m4:          *)
(*   src/m4/debug.c    debug level decoder, debug output router, trace     *)
(*                     line formatter and the three trace entry points     *)
(*   src/m4/utility.c  error / warning emitters and argument helpers       *)
(*                                                                         *)
(* C strings are TLA+ strings, FILE pointers are small integers, the debug *)
(* level is an integer bitmask.  The trace obstack is kept as the sequence *)
(* of pieces grown onto it; each piece remembers the call id and the debug *)
(* level under which it was formatted, so that what a printed line is made *)
(* of can be stated.                                                       *)
(***************************************************************************)
EXTENDS Integers, Sequences, FiniteSets, TLC

VARIABLES
  debug_level,                \* int debug_level (the current bitmask)
  max_debug_argument_length,  \* int max_debug_argument_length (option -l)
  trace,                      \* static struct obstack trace (pending pieces)
  m4_debug,                   \* FILE *m4_debug
  fps,                        \* the FILE objects fopen () has returned so far
  std_closed,                 \* fclose () calls made on stdout / stderr
  stdout_stat,                \* what fstat (fileno (stdout)) answers
  stderr_stat,                \* what fstat (fileno (stderr)) answers
  out,                        \* the lines written through M4_DEBUG_PRINT1 for the
                              \* invocations in progress and by the last call
  stack,                      \* the macro engine's invocations in progress
  next_id,                    \* the macro engine's call id counter
  suppress_warnings,          \* m4_get_suppress_warnings_opt (context)
  fatal_warnings,             \* m4_get_fatal_warnings_opt (context)
  exit_status,                \* the context's exit status
  exited,                     \* NotExited, or the status the process ended with
  errlog,                     \* the messages printed by verror_at_line
  last                        \* the call made last and what it returned

vars == <<debug_level, max_debug_argument_length, trace, m4_debug, fps,
          std_closed, stdout_stat, stderr_stat, out, stack, next_id, suppress_warnings,
          fatal_warnings, exit_status, exited, errlog, last>>

traceVars  == <<debug_level, max_debug_argument_length, trace, out, stack, next_id>>
routerVars == <<m4_debug, fps, std_closed, stdout_stat, stderr_stat>>
diagVars   == <<suppress_warnings, fatal_warnings, exit_status, exited, errlog>>

----------------------------------------------------------------------------
(* Bounds of the model.                                                    *)

MaxCalls   == 2    \* call ids handed out in one run
MaxDepth   == 2    \* invocations in progress at once
MaxOptsLen == 3    \* length of a flag string given to the decoder
MaxOpens   == 2    \* fopen () calls that succeed in one run
MaxMsgs    == 3    \* diagnostics printed in one run

----------------------------------------------------------------------------
(* C values.                                                               *)

NullStr == "<NULL>"      \* the null char pointer
NULL_FP == 0             \* the null FILE pointer
stdout  == 1
stderr  == 2

EXIT_SUCCESS == 0
EXIT_FAILURE == 1
NotExited    == -1
Aborted      == 134

Rest(s) == IF Len(s) <= 1 THEN "" ELSE SubSeq(s, 2, Len(s))
First(s) == SubSeq(s, 1, 1)

RECURSIVE BitOr(_, _)
BitOr(a, b) ==
  IF a = 0 THEN b
  ELSE IF b = 0 THEN a
  ELSE (IF a % 2 = 1 \/ b % 2 = 1 THEN 1 ELSE 0) + 2 * BitOr(a \div 2, b \div 2)

RECURSIVE BitAnd(_, _)
BitAnd(a, b) ==
  IF a = 0 \/ b = 0 THEN 0
  ELSE (IF a % 2 = 1 /\ b % 2 = 1 THEN 1 ELSE 0) + 2 * BitAnd(a \div 2, b \div 2)

(* The debug level bits.                                                   *)
M4_DEBUG_TRACE_ARGS      == 1
M4_DEBUG_TRACE_EXPANSION == 2
M4_DEBUG_TRACE_QUOTE     == 4
M4_DEBUG_TRACE_ALL       == 8
M4_DEBUG_TRACE_LINE      == 16
M4_DEBUG_TRACE_FILE      == 32
M4_DEBUG_TRACE_PATH      == 64
M4_DEBUG_TRACE_CALL      == 128
M4_DEBUG_TRACE_INPUT     == 256
M4_DEBUG_TRACE_CALLID    == 512
M4_DEBUG_TRACE_VERBOSE   == 1024
M4_DEBUG_TRACE_DEFAULT   == 7

(* What the macro engine and the configuration supply.                     *)
lquote == "<"
rquote == ">"
m4_current_file == "in.m4"
m4_current_line == 7


----------------------------------------------------------------------------
(* m4_debug_decode: the loop over the flag characters.                     *)

(* The switch of m4_debug_decode with default: falling out of the switch   *)
(* instead of returning -1.                                                *)
decode_char_skips_unknown(level, c) ==
  CASE c = "a" -> BitOr(level, M4_DEBUG_TRACE_ARGS)
    [] c = "e" -> BitOr(level, M4_DEBUG_TRACE_EXPANSION)
    [] c = "q" -> BitOr(level, M4_DEBUG_TRACE_QUOTE)
    [] c = "t" -> BitOr(level, M4_DEBUG_TRACE_ALL)
    [] c = "l" -> BitOr(level, M4_DEBUG_TRACE_LINE)
    [] c = "f" -> BitOr(level, M4_DEBUG_TRACE_FILE)
    [] c = "p" -> BitOr(level, M4_DEBUG_TRACE_PATH)
    [] c = "c" -> BitOr(level, M4_DEBUG_TRACE_CALL)
    [] c = "i" -> BitOr(level, M4_DEBUG_TRACE_INPUT)
    [] c = "x" -> BitOr(level, M4_DEBUG_TRACE_CALLID)
    [] c = "V" -> BitOr(level, M4_DEBUG_TRACE_VERBOSE)
    [] OTHER   -> level

decode_char(level, c) ==
  CASE c = "a" -> BitOr(level, M4_DEBUG_TRACE_ARGS)
    [] c = "e" -> BitOr(level, M4_DEBUG_TRACE_EXPANSION)
    [] c = "q" -> BitOr(level, M4_DEBUG_TRACE_QUOTE)
    [] c = "t" -> BitOr(level, M4_DEBUG_TRACE_ALL)
    [] c = "l" -> BitOr(level, M4_DEBUG_TRACE_LINE)
    [] c = "f" -> BitOr(level, M4_DEBUG_TRACE_FILE)
    [] c = "p" -> BitOr(level, M4_DEBUG_TRACE_PATH)
    [] c = "c" -> BitOr(level, M4_DEBUG_TRACE_CALL)
    [] c = "i" -> BitOr(level, M4_DEBUG_TRACE_INPUT)
    [] c = "x" -> BitOr(level, M4_DEBUG_TRACE_CALLID)
    [] c = "V" -> BitOr(level, M4_DEBUG_TRACE_VERBOSE)
    [] OTHER   -> -1

(* The loop of m4_debug_decode with "level =" for "level |=".              *)
RECURSIVE decode_loop_assigns(_, _)
decode_loop_assigns(level, opts) ==
  IF opts = "" THEN level
  ELSE LET l == decode_char(0, First(opts))
       IN  IF l = -1 THEN -1 ELSE decode_loop_assigns(l, Rest(opts))

RECURSIVE decode_loop(_, _)
decode_loop(level, opts) ==
  IF opts = "" THEN level
  ELSE LET l == decode_char(level, First(opts))
       IN  IF l = -1 THEN -1 ELSE decode_loop(l, Rest(opts))

(* m4_debug_decode without the obstack_free () of line 121.                *)
m4_debug_decode_keeps_trace(tr, opts) ==
  LET level == IF opts = NullStr \/ opts = ""
               THEN M4_DEBUG_TRACE_DEFAULT
               ELSE decode_loop(0, opts)
  IN  [ret |-> level, trace |-> tr]

(* m4_debug_decode with the obstack_free () of line 121 done before the    *)
(* loop over the flag characters.                                          *)
m4_debug_decode_frees_first(tr, opts) ==
  LET level == IF opts = NullStr \/ opts = ""
               THEN M4_DEBUG_TRACE_DEFAULT
               ELSE decode_loop(0, opts)
  IN  [ret |-> level, trace |-> <<>>]

(* m4_debug_decode (opts) run with the obstack holding tr: the value       *)
(* returned and the obstack afterwards.                                    *)
m4_debug_decode(tr, opts) ==
  LET level == IF opts = NullStr \/ opts = ""
               THEN M4_DEBUG_TRACE_DEFAULT
               ELSE decode_loop(0, opts)
  IN  IF level = -1
      THEN [ret |-> -1, trace |-> tr]
      ELSE [ret |-> level, trace |-> <<>>]


----------------------------------------------------------------------------
(* m4_trace_format: the printf-to-obstack function.                        *)

Digit(k) == SubSeq("0123456789", k + 1, k + 1)

RECURSIVE Digits(_)
Digits(n) == IF n < 10 THEN Digit(n) ELSE Digits(n \div 10) \o Digit(n % 10)

(* sprintf (nbuf, "%d", d) *)
sprintf_d(d) == IF d < 0 THEN "-" \o Digits(0 - d) ELSE Digits(d)

(* The bytes grown for one directive: s in full, or its first maxlen       *)
(* characters and an ellipsis.                                             *)
grow_limited(s, maxlen) ==
  LET slen == Len(s)
  IN  IF maxlen = 0 \/ maxlen > slen
      THEN s
      ELSE SubSeq(s, 1, maxlen) \o "..."

RECURSIVE format_text(_, _)
format_text(fmt, args) ==
  IF fmt = "" THEN ""
  ELSE LET ch == First(fmt)
       IN  IF ch # "%"
           THEN ch \o format_text(Rest(fmt), args)
           ELSE LET d    == First(Rest(fmt))
                    more == Rest(Rest(fmt))
                    quoted == BitAnd(debug_level, M4_DEBUG_TRACE_QUOTE) # 0
                IN  CASE d = "S" ->
                           grow_limited(Head(args), max_debug_argument_length)
                             \o format_text(more, Tail(args))
                      [] d = "s" ->
                           grow_limited(Head(args), 0) \o format_text(more, Tail(args))
                      [] d = "l" ->
                           grow_limited(IF quoted THEN lquote ELSE "", 0)
                             \o format_text(more, args)
                      [] d = "r" ->
                           grow_limited(IF quoted THEN rquote ELSE "", 0)
                             \o format_text(more, args)
                      [] d = "d" ->
                           grow_limited(sprintf_d(Head(args)), 0)
                             \o format_text(more, Tail(args))
                      [] OTHER -> format_text(more, args)

(* The state a trace function works on: the obstack, the lines printed so  *)
(* far, the expansion level, the steps taken in this call and whether the  *)
(* call ended in abort ().                                                 *)
TraceState(tr, o, depth, op) ==
  [trace |-> tr, out |-> o, depth |-> depth, op |-> op, steps |-> <<>>,
   abort |-> FALSE]

(* A piece of the obstack: its bytes, and the call id, the entry point and *)
(* the debug level it was formatted for.                                   *)
Piece(text, id, op) == [s |-> text, id |-> id, op |-> op, lvl |-> debug_level]

m4_trace_format(st, id, fmt, args) ==
  LET text == format_text(fmt, args)
  IN  [st EXCEPT !.trace = IF text = "" THEN @ ELSE Append(@, Piece(text, id, st.op)),
                 !.steps = Append(@, "format")]

(* m4_trace_format (fmt, ...) under an if. *)
format_if(cond, st, id, fmt, args) ==
  IF cond THEN m4_trace_format(st, id, fmt, args) ELSE st

Level(flag) == BitAnd(debug_level, flag) # 0

(* m4_trace_header (id) *)
m4_trace_header(st, id) ==
  LET s1 == m4_trace_format(st, id, "m4trace:", <<>>)
      s2 == format_if(Level(M4_DEBUG_TRACE_FILE), s1, id, "%s:", <<m4_current_file>>)
      s3 == format_if(Level(M4_DEBUG_TRACE_LINE), s2, id, "%d:", <<m4_current_line>>)
      s4 == m4_trace_format(s3, id, " -%d- ", <<st.depth>>)
  IN  format_if(Level(M4_DEBUG_TRACE_CALLID), s4, id, "id %d: ", <<id>>)

(* M4_DEBUG_PRINT1 ("%s\n", line): nothing is printed to a null stream.    *)
M4_DEBUG_PRINT1(o, line, id) ==
  IF m4_debug # NULL_FP
  THEN Append(o, [fp |-> m4_debug, text |-> line, id |-> id, lvl |-> debug_level])
  ELSE o

(* m4_trace_flush (); id is the call on whose behalf the line is printed.  *)
m4_trace_flush(st, id) ==
  [st EXCEPT !.out   = M4_DEBUG_PRINT1(@, st.trace, id),
             !.trace = <<>>,
             !.steps = Append(@, "flush")]

(* m4_trace_prepre (name, id) *)
m4_trace_prepre(st, name, id) ==
  m4_trace_flush(m4_trace_format(m4_trace_header(st, id), id, "%s ...", <<name>>), id)

(* abort () after M4ERROR *)
abort(st) == [st EXCEPT !.abort = TRUE]

(* The switch of m4_trace_pre on the type of one argument. *)
trace_pre_arg(st, id, a) ==
  CASE a.type = "TEXT" -> m4_trace_format(st, id, "%l%S%r", <<a.text>>)
    [] a.type = "FUNC" -> IF a.text = NullStr
                          THEN abort(st)
                          ELSE m4_trace_format(st, id, "<%s>", <<a.text>>)
    [] OTHER -> abort(st)

(* The loop of m4_trace_pre with the separator written before every        *)
(* argument, the first included.                                           *)
RECURSIVE trace_pre_args_leading_sep(_, _, _, _)
trace_pre_args_leading_sep(st, id, argv, i) ==
  IF i >= Len(argv) \/ st.abort THEN st
  ELSE trace_pre_args_leading_sep(
         trace_pre_arg(m4_trace_format(st, id, ", ", <<>>), id, argv[i + 1]),
         id, argv, i + 1)

(* The loop of m4_trace_pre over argv[i], i < argc.  argv is 1-based here: *)
(* argv[1] is the C argv[0].                                               *)
RECURSIVE trace_pre_args(_, _, _, _)
trace_pre_args(st, id, argv, i) ==
  IF i >= Len(argv) \/ st.abort THEN st
  ELSE trace_pre_args(
         trace_pre_arg(format_if(i # 1, st, id, ", ", <<>>), id, argv[i + 1]),
         id, argv, i + 1)

(* The statements of a trace function that a call of abort () cuts off. *)
unless_aborted_format(st, id, fmt) ==
  IF st.abort THEN st ELSE m4_trace_format(st, id, fmt, <<>>)
unless_aborted_flush(st, id) ==
  IF st.abort THEN st ELSE m4_trace_flush(st, id)

(* The argument list of m4_trace_pre: "(", the arguments, ")". *)
trace_pre_arglist(cond, st, id, argv) ==
  IF cond
  THEN unless_aborted_format(
         trace_pre_args(m4_trace_format(st, id, "(", <<>>), id, argv, 1), id, ")")
  ELSE st

(* The end of m4_trace_pre: the placeholder and the flush, under           *)
(* M4_DEBUG_TRACE_CALL.                                                    *)
trace_pre_call(cond, st, id) ==
  IF cond
  THEN unless_aborted_flush(unless_aborted_format(st, id, " -> ???"), id)
  ELSE st

(* m4_trace_pre that formats the placeholder but leaves the line pending.  *)
m4_trace_pre_no_flush(st, name, id, argv) ==
  LET argc == Len(argv)
      s1 == m4_trace_format(m4_trace_header(st, id), id, "%s", <<name>>)
      s2 == trace_pre_arglist(argc > 1 /\ Level(M4_DEBUG_TRACE_ARGS), s1, id, argv)
  IN  format_if(Level(M4_DEBUG_TRACE_CALL), s2, id, " -> ???", <<>>)

(* m4_trace_pre that takes the 'trace calls' flag as set.                   *)
m4_trace_pre_always_flushes(st, name, id, argv) ==
  LET argc == Len(argv)
      s1 == m4_trace_format(m4_trace_header(st, id), id, "%s", <<name>>)
      s2 == trace_pre_arglist(argc > 1 /\ Level(M4_DEBUG_TRACE_ARGS), s1, id, argv)
  IN  trace_pre_call(TRUE, s2, id)

(* m4_trace_pre (name, id, argc, argv) *)
m4_trace_pre(st, name, id, argv) ==
  LET argc == Len(argv)
      s1 == m4_trace_format(m4_trace_header(st, id), id, "%s", <<name>>)
      s2 == trace_pre_arglist(argc > 1 /\ Level(M4_DEBUG_TRACE_ARGS), s1, id, argv)
  IN  trace_pre_call(Level(M4_DEBUG_TRACE_CALL), s2, id)

(* The first if of m4_trace_post: a header of its own. *)
trace_post_call(cond, st, name, id, argc) ==
  IF cond
  THEN m4_trace_format(m4_trace_header(st, id), id, "%s%s",
                       <<name, IF argc > 1 THEN "(...)" ELSE "">>)
  ELSE st

(* m4_trace_flush () only after something was formatted. *)
flush_if_formatted(st, id) ==
  IF st.steps = <<>> THEN st ELSE m4_trace_flush(st, id)

(* m4_trace_post that flushes only when it has formatted something.       *)
m4_trace_post_flush_if_text(st, name, id, argv, expanded) ==
  LET s1 == trace_post_call(Level(M4_DEBUG_TRACE_CALL), st, name, id, Len(argv))
      s2 == format_if(expanded # NullStr /\ Level(M4_DEBUG_TRACE_EXPANSION),
                      s1, id, " -> %l%S%r", <<expanded>>)
  IN  flush_if_formatted(s2, id)

(* m4_trace_post that writes a header of its own whatever the level is.    *)
m4_trace_post_always_header(st, name, id, argv, expanded) ==
  LET s1 == trace_post_call(TRUE, st, name, id, Len(argv))
      s2 == format_if(expanded # NullStr /\ Level(M4_DEBUG_TRACE_EXPANSION),
                      s1, id, " -> %l%S%r", <<expanded>>)
  IN  m4_trace_flush(s2, id)

(* m4_trace_post (name, id, argc, argv, expanded) *)
m4_trace_post(st, name, id, argv, expanded) ==
  LET s1 == trace_post_call(Level(M4_DEBUG_TRACE_CALL), st, name, id, Len(argv))
      s2 == format_if(expanded # NullStr /\ Level(M4_DEBUG_TRACE_EXPANSION),
                      s1, id, " -> %l%S%r", <<expanded>>)
  IN  m4_trace_flush(s2, id)

----------------------------------------------------------------------------
(* The debug output router: m4_debug_set_file and m4_debug_set_output,     *)
(* with the files and the fstat () answers of the environment.             *)

Stat(dev, ino) == [ok |-> TRUE, st_dev |-> dev, st_ino |-> ino]
StatFails      == [ok |-> FALSE, st_dev |-> 0, st_ino |-> 0]

(* The names a caller may pass, and what the file system holds for them:   *)
(* a file of its own, the file standard output is on, a file with the      *)
(* inode number of standard output on another device, a file fstat ()      *)
(* fails on, and a path that cannot be opened.                             *)
Openable   == {"trace.log", "/dev/stdout", "other.log", "stale.log"}
Unopenable == {"/no/such/dir/trace.log"}
FileStat(name) ==
  CASE name = "trace.log"   -> Stat(1, 2)
    [] name = "/dev/stdout" -> Stat(1, 1)
    [] name = "other.log"   -> Stat(2, 1)
    [] OTHER                -> StatFails

RouterState == [m4_debug |-> m4_debug, fps |-> fps, std_closed |-> std_closed]

(* fopen (name, "a"): a new FILE object, or NULL. *)
fopen(rs, name) ==
  IF name \in Unopenable
  THEN [fp |-> NULL_FP, rs |-> rs]
  ELSE [fp |-> Len(rs.fps) + 3,
        rs |-> [rs EXCEPT !.fps = Append(@, [name |-> name, open |-> TRUE,
                                             closes |-> 0])]]

(* fclose (fp) *)
fclose(rs, fp) ==
  IF fp \in {stdout, stderr}
  THEN [rs EXCEPT !.std_closed = @ + 1]
  ELSE [rs EXCEPT !.fps[fp - 2] = [@ EXCEPT !.open = FALSE, !.closes = @ + 1]]

(* fstat (fileno (fp), &st) *)
fstat(rs, fp) ==
  CASE fp = stdout -> stdout_stat
    [] fp = stderr -> stderr_stat
    [] OTHER       -> FileStat(rs.fps[fp - 2].name)

(* m4_debug_set_file that compares the inode numbers only.                 *)
m4_debug_set_file_inode_only(rs, fp) ==
  LET s1 == IF rs.m4_debug # NULL_FP /\ rs.m4_debug # stderr /\ rs.m4_debug # stdout
            THEN fclose(rs, rs.m4_debug) ELSE rs
      s2 == [s1 EXCEPT !.m4_debug = fp]
  IN  IF fp # NULL_FP /\ fp # stdout
      THEN IF ~fstat(s2, stdout).ok THEN s2
           ELSE IF ~fstat(s2, fp).ok THEN s2
           ELSE IF fstat(s2, stdout).st_ino = fstat(s2, fp).st_ino
                THEN [(IF fp # stderr THEN fclose(s2, fp) ELSE s2)
                        EXCEPT !.m4_debug = stdout]
                ELSE s2
      ELSE s2

(* m4_debug_set_file that does not close the stream it replaces.           *)
m4_debug_set_file_leaks(rs, fp) ==
  LET s2 == [rs EXCEPT !.m4_debug = fp]
  IN  IF fp # NULL_FP /\ fp # stdout
      THEN IF ~fstat(s2, stdout).ok THEN s2
           ELSE IF ~fstat(s2, fp).ok THEN s2
           ELSE IF /\ fstat(s2, stdout).st_ino = fstat(s2, fp).st_ino
                   /\ fstat(s2, stdout).st_dev = fstat(s2, fp).st_dev
                THEN [(IF fp # stderr THEN fclose(s2, fp) ELSE s2)
                        EXCEPT !.m4_debug = stdout]
                ELSE s2
      ELSE s2

(* m4_debug_set_file (fp) *)
m4_debug_set_file(rs, fp) ==
  LET s1 == IF rs.m4_debug # NULL_FP /\ rs.m4_debug # stderr /\ rs.m4_debug # stdout
            THEN fclose(rs, rs.m4_debug) ELSE rs
      s2 == [s1 EXCEPT !.m4_debug = fp]
  IN  IF fp # NULL_FP /\ fp # stdout
      THEN IF ~fstat(s2, stdout).ok THEN s2
           ELSE IF ~fstat(s2, fp).ok THEN s2
           ELSE IF /\ fstat(s2, stdout).st_ino = fstat(s2, fp).st_ino
                   /\ fstat(s2, stdout).st_dev = fstat(s2, fp).st_dev
                THEN [(IF fp # stderr THEN fclose(s2, fp) ELSE s2)
                        EXCEPT !.m4_debug = stdout]
                ELSE s2
      ELSE s2

(* m4_debug_set_output that discards the output when the file cannot be    *)
(* opened.                                                                 *)
m4_debug_set_output_drops_on_failure(rs, name) ==
  IF name = NullStr
  THEN [ret |-> TRUE, rs |-> m4_debug_set_file(rs, stderr)]
  ELSE IF name = ""
  THEN [ret |-> TRUE, rs |-> m4_debug_set_file(rs, NULL_FP)]
  ELSE LET f == fopen(rs, name)
       IN  IF f.fp = NULL_FP
           THEN [ret |-> FALSE, rs |-> m4_debug_set_file(rs, NULL_FP)]
           ELSE [ret |-> TRUE, rs |-> m4_debug_set_file(f.rs, f.fp)]

(* m4_debug_set_output (name) *)
m4_debug_set_output(rs, name) ==
  IF name = NullStr
  THEN [ret |-> TRUE, rs |-> m4_debug_set_file(rs, stderr)]
  ELSE IF name = ""
  THEN [ret |-> TRUE, rs |-> m4_debug_set_file(rs, NULL_FP)]
  ELSE LET f == fopen(rs, name)
       IN  IF f.fp = NULL_FP
           THEN [ret |-> FALSE, rs |-> rs]
           ELSE [ret |-> TRUE, rs |-> m4_debug_set_file(f.rs, f.fp)]

(* m4_debug_init (): the stream the program starts with. *)
m4_debug_init == m4_debug_set_file([m4_debug |-> NULL_FP, fps |-> <<>>, std_closed |-> 0],
                                   stderr)

----------------------------------------------------------------------------
(* The diagnostic emitter: m4_error, m4_error_at_line, m4_warn and         *)
(* m4_warn_at_line.                                                        *)

DiagState == [exit_status |-> exit_status, exited |-> exited, errlog |-> errlog]

(* verror_at_line (status, errnum, file, line, format, args): the message  *)
(* is printed, and a non-zero status ends the process with that status.    *)
verror_at_line(ds, status, errnum, file, line, format) ==
  [ds EXCEPT !.errlog = Append(@, [format |-> format, errnum |-> errnum,
                                   file |-> file, line |-> line]),
             !.exited = IF status # 0 THEN status ELSE @]

(* m4_set_exit_status (context, status) *)
m4_set_exit_status(ds, status) == [ds EXCEPT !.exit_status = status]

(* m4_error that does not record the failure.                              *)
m4_error_forgets_failure(ds, status, errnum, line) ==
  LET st == IF status = EXIT_SUCCESS /\ fatal_warnings THEN EXIT_FAILURE ELSE status
  IN  verror_at_line(ds, st, errnum,
                     IF line # 0 THEN m4_current_file ELSE NullStr, line, "error")

(* m4_error (context, status, errnum, format, ...), the current line being *)
(* line.                                                                   *)
m4_error(ds, status, errnum, line) ==
  LET st == IF status = EXIT_SUCCESS /\ fatal_warnings THEN EXIT_FAILURE ELSE status
      d1 == verror_at_line(ds, st, errnum,
                           IF line # 0 THEN m4_current_file ELSE NullStr, line, "error")
  IN  IF d1.exited # NotExited THEN d1 ELSE m4_set_exit_status(d1, EXIT_FAILURE)

(* m4_error_at_line (context, status, errnum, file, line, format, ...) *)
m4_error_at_line(ds, status, errnum, file, line) ==
  LET st == IF status = EXIT_SUCCESS /\ fatal_warnings THEN EXIT_FAILURE ELSE status
      d1 == verror_at_line(ds, st, errnum, IF line # 0 THEN file ELSE NullStr, line,
                           "error")
  IN  IF d1.exited # NotExited THEN d1 ELSE m4_set_exit_status(d1, EXIT_FAILURE)

(* xasprintf (_("Warning: %s"), format) *)
xasprintf_warning(format) == "Warning: " \o format

(* m4_warn whose status stays EXIT_SUCCESS under fatal warnings.           *)
m4_warn_never_fatal(ds, errnum, line, format) ==
  IF ~suppress_warnings
  THEN verror_at_line(ds, EXIT_SUCCESS, errnum,
                      IF line # 0 THEN m4_current_file ELSE NullStr, line,
                      xasprintf_warning(format))
  ELSE ds

(* m4_warn (context, errnum, format, ...), the current line being line. *)
m4_warn(ds, errnum, line, format) ==
  IF ~suppress_warnings
  THEN LET status == IF fatal_warnings THEN EXIT_FAILURE ELSE EXIT_SUCCESS
       IN  verror_at_line(ds, status, errnum,
                          IF line # 0 THEN m4_current_file ELSE NullStr, line,
                          xasprintf_warning(format))
  ELSE ds

(* m4_warn_at_line that records a failure the way m4_error_at_line does.   *)
m4_warn_at_line_sets_failure(ds, errnum, file, line, format) ==
  IF ~suppress_warnings
  THEN LET status == IF fatal_warnings THEN EXIT_FAILURE ELSE EXIT_SUCCESS
       IN  m4_set_exit_status(
             verror_at_line(ds, status, errnum, IF line # 0 THEN file ELSE NullStr, line,
                            xasprintf_warning(format)),
             EXIT_FAILURE)
  ELSE ds

(* m4_warn_at_line (context, errnum, file, line, format, ...) *)
m4_warn_at_line(ds, errnum, file, line, format) ==
  IF ~suppress_warnings
  THEN LET status == IF fatal_warnings THEN EXIT_FAILURE ELSE EXIT_SUCCESS
       IN  verror_at_line(ds, status, errnum, IF line # 0 THEN file ELSE NullStr, line,
                          xasprintf_warning(format))
  ELSE ds

----------------------------------------------------------------------------
(* The argument helpers of the builtins: m4_bad_argc, m4_numeric_arg and   *)
(* m4_dump_args.                                                           *)

(* MAX "if not applicable".  The largest integer of the model stands for   *)
(* UINT_MAX: all that is used of it is that no argc - 1 exceeds it.        *)
UINT_MAX == 2147483647
INT_MAX  == 2147483647

(* The state a helper works on: the diagnostic state, the value returned,  *)
(* the int stored through valuep and the formats it has called m4_warn     *)
(* with.                                                                   *)
HelperState(ds) == [ds |-> ds, ret |-> FALSE, value |-> 0, warned |-> <<>>]

(* m4_warn (context, 0, format, ...) called by a helper, the arguments     *)
(* already printed into the format.                                        *)
helper_warn(hs, format) ==
  [hs EXCEPT !.ds = m4_warn(@, 0, m4_current_line, format),
             !.warned = Append(@, format)]

return(hs, value) == [hs EXCEPT !.ret = value]

(* m4_bad_argc without the return in the "too few" branch.                 *)
m4_bad_argc_falls_through(hs, argc, name, min, max, side_effect) ==
  LET few == IF argc - 1 < min
             THEN helper_warn(hs, name \o ": too few arguments: " \o sprintf_d(argc - 1)
                                    \o " < " \o sprintf_d(min))
             ELSE hs
  IN  IF argc - 1 > max
      THEN return(helper_warn(few, name \o ": extra arguments ignored: "
                                     \o sprintf_d(argc - 1) \o " > " \o sprintf_d(max)),
                  FALSE)
      ELSE return(few, FALSE)

(* m4_bad_argc that answers !side_effect for extra arguments too.          *)
m4_bad_argc_extra_is_bad(hs, argc, name, min, max, side_effect) ==
  IF argc - 1 < min
  THEN return(helper_warn(hs, name \o ": too few arguments: " \o sprintf_d(argc - 1)
                                \o " < " \o sprintf_d(min)),
              ~side_effect)
  ELSE IF argc - 1 > max
  THEN return(helper_warn(hs, name \o ": extra arguments ignored: "
                                \o sprintf_d(argc - 1) \o " > " \o sprintf_d(max)),
              ~side_effect)
  ELSE return(hs, FALSE)

(* m4_bad_argc (context, argc, argv, min, max, side_effect), name being    *)
(* M4ARG (0).  argc counts argv[0], so argc - 1 is not negative and its    *)
(* comparison with the unsigned min and max is the one of the integers.    *)
m4_bad_argc(hs, argc, name, min, max, side_effect) ==
  IF argc - 1 < min
  THEN return(helper_warn(hs, name \o ": too few arguments: " \o sprintf_d(argc - 1)
                                \o " < " \o sprintf_d(min)),
              ~side_effect)
  ELSE IF argc - 1 > max
  THEN return(helper_warn(hs, name \o ": extra arguments ignored: "
                                \o sprintf_d(argc - 1) \o " > " \o sprintf_d(max)),
              FALSE)
  ELSE return(hs, FALSE)

(* The characters of M4_SYNTAX_SPACE in the syntax table, which are also   *)
(* the ones isspace () accepts.                                            *)
Whitespace == {" ", "\t"}
m4_has_syntax_space(c) == c \in Whitespace
isspace(c) == c \in Whitespace
isdigit(c) == \E k \in 0..9 : Digit(k) = c
DigitValue(c) == CHOOSE k \in 0..9 : Digit(k) = c

RECURSIVE skip_space(_)
skip_space(arg) ==
  IF arg # "" /\ m4_has_syntax_space(First(arg)) THEN skip_space(Rest(arg)) ELSE arg

RECURSIVE strtol_space(_)
strtol_space(nptr) ==
  IF nptr # "" /\ isspace(First(nptr)) THEN strtol_space(Rest(nptr)) ELSE nptr

strtol_sign(s) == IF s # "" /\ First(s) \in {"-", "+"} THEN Rest(s) ELSE s

(* The digits of strtol (): the magnitude read so far, whether it is past  *)
(* INT_MAX (0: no, 1: it is INT_MAX + 1, 2: it is larger), how many digits *)
(* were read and the text after them.                                      *)
RECURSIVE strtol_digits(_, _, _, _)
strtol_digits(s, m, over, n) ==
  IF s = "" \/ ~isdigit(First(s))
  THEN [m |-> m, over |-> over, n |-> n, endp |-> s]
  ELSE LET d == DigitValue(First(s))
       IN  IF over = 0 /\ m <= (INT_MAX - d) \div 10
           THEN strtol_digits(Rest(s), m * 10 + d, 0, n + 1)
           ELSE strtol_digits(Rest(s), m,
                              IF over = 0 /\ m = INT_MAX \div 10 /\ d = 8 THEN 1 ELSE 2,
                              n + 1)

(* (int) strtol (nptr, &endp, 10).  A number that no int holds is stored   *)
(* as wrapped, the value the build makes of it: LONG_MAX or LONG_MIN where *)
(* long is as wide as int, the low bits of the long elsewhere.             *)
strtol(nptr, wrapped) ==
  LET s1  == strtol_space(nptr)
      neg == s1 # "" /\ First(s1) = "-"
      r   == strtol_digits(strtol_sign(s1), 0, 0, 0)
  IN  IF r.n = 0
      THEN [value |-> 0, endp |-> nptr]
      ELSE [value |-> CASE r.over = 0 -> IF neg THEN 0 - r.m ELSE r.m
                        [] r.over = 1 /\ neg -> 0 - INT_MAX - 1
                        [] OTHER -> wrapped,
            endp |-> r.endp]

store(hs, value) == [hs EXCEPT !.value = value]

(* m4_numeric_arg that does not look at what follows the number.           *)
m4_numeric_arg_ignores_rest(hs, name, arg, wrapped) ==
  IF arg = ""
  THEN return(helper_warn(store(hs, 0), name \o ": empty string treated as 0"), TRUE)
  ELSE return(store(hs, strtol(skip_space(arg), wrapped).value), TRUE)

(* m4_numeric_arg that gives the empty string to strtol ().                *)
m4_numeric_arg_no_empty_case(hs, name, arg, wrapped) ==
  LET r == strtol(skip_space(arg), wrapped)
  IN  IF skip_space(r.endp) # ""
      THEN return(helper_warn(store(hs, r.value),
                              name \o ": non-numeric argument " \o arg),
                  FALSE)
      ELSE return(store(hs, r.value), TRUE)

(* m4_numeric_arg (context, argc, argv, arg, valuep), name being M4ARG (0) *)
(* and arg being M4ARG (arg).  The quotes the message puts around the      *)
(* argument are left out.                                                  *)
m4_numeric_arg(hs, name, arg, wrapped) ==
  IF arg = ""
  THEN return(helper_warn(store(hs, 0), name \o ": empty string treated as 0"), TRUE)
  ELSE LET r == strtol(skip_space(arg), wrapped)
       IN  IF skip_space(r.endp) # ""
           THEN return(helper_warn(store(hs, r.value),
                                   name \o ": non-numeric argument " \o arg),
                       FALSE)
           ELSE return(store(hs, r.value), TRUE)

(* m4_shipout_string (context, obs, s, 0, quoted): s is grown onto obs,     *)
(* between the current quotes when quoted.  A piece of obs remembers the    *)
(* statement that grew it and the index of the argument.                   *)
m4_shipout_string(obs, s, i, quoted) ==
  Append(obs, [s    |-> IF quoted THEN lquote \o s \o rquote ELSE s,
               what |-> "arg", i |-> i])

(* obstack_grow (obs, sep, len) *)
grow_sep(obs, sep, i) == Append(obs, [s |-> sep, what |-> "sep", i |-> i])

(* The loop of m4_dump_args with the separator grown after every argument. *)
RECURSIVE m4_dump_args_trailing_sep(_, _, _, _, _)
m4_dump_args_trailing_sep(obs, argv, sep, quoted, i) ==
  IF i >= Len(argv) THEN obs
  ELSE m4_dump_args_trailing_sep(
         grow_sep(m4_shipout_string(obs, argv[i + 1], i, quoted), sep, i),
         argv, sep, quoted, i + 1)

(* m4_dump_args (context, obs, argc, argv, sep, quoted) from i on; argv is *)
(* 1-based here: argv[i + 1] is M4ARG (i), and argc is Len (argv).         *)
RECURSIVE m4_dump_args(_, _, _, _, _)
m4_dump_args(obs, argv, sep, quoted, i) ==
  IF i >= Len(argv) THEN obs
  ELSE m4_dump_args(
         m4_shipout_string(IF i > 1 THEN grow_sep(obs, sep, i) ELSE obs,
                           argv[i + 1], i, quoted),
         argv, sep, quoted, i + 1)

----------------------------------------------------------------------------
(* The macro engine around the trace entry points: it hands out call ids,  *)
(* calls the three entry points of an invocation in order, and may run a   *)
(* whole nested invocation between two of them.                            *)

MacroName(id) == IF id % 2 = 1 THEN "foo" ELSE "bar"
Text(s)  == [type |-> "TEXT", text |-> s]
Func(s)  == [type |-> "FUNC", text |-> s]
ArgVectors(name) ==
  { <<Text(name)>>,
    <<Text(name), Text("x"), Text("y")>>,
    <<Text(name), Func("define"), Func(NullStr)>>,
    <<Text(name), [type |-> "VOID", text |-> ""]>> }
Expansions == {NullStr, "result"}
MaxArgLen  == 1

(* The levels a run starts from: every combination of the bits the trace   *)
(* functions read.                                                         *)
RECURSIVE SumOf(_)
SumOf(S) == IF S = {} THEN 0 ELSE LET x == CHOOSE y \in S : TRUE IN x + SumOf(S \ {x})
TraceBits  == {M4_DEBUG_TRACE_ARGS, M4_DEBUG_TRACE_EXPANSION, M4_DEBUG_TRACE_QUOTE,
               M4_DEBUG_TRACE_CALL}
HeaderBits == {M4_DEBUG_TRACE_CALLID, M4_DEBUG_TRACE_LINE, M4_DEBUG_TRACE_FILE}
TraceLevels ==
  {SumOf(S) : S \in SUBSET TraceBits}
    \cup {SumOf(S \cup HeaderBits) : S \in SUBSET {M4_DEBUG_TRACE_CALL}}
TraceOpts   == {NullStr, "aeq", "aeqc", "az"}

NoCall == [op |-> "none", id |-> 0, arg |-> "", ret |-> 0, steps |-> <<>>,
           lvls |-> <<>>, pending |-> 0]

Top == stack[Len(stack)]

(* The printed lines still looked at when the next trace call is made:     *)
(* those of the invocations in progress.                                   *)
InProgress == {stack[i].id : i \in 1..Len(stack)}
Window == SelectSeq(out, LAMBDA l : l.id \in InProgress)

(* The argument vectors the invocation on top may have collected. *)
CollectedArgs == IF stack = <<>> THEN {} ELSE ArgVectors(Top.name)

(* expand_macro () before collecting the arguments *)
TraceBeforeArguments ==
  /\ exited = NotExited
  /\ next_id <= MaxCalls
  /\ Len(stack) < MaxDepth
  /\ LET id == next_id
         name == MacroName(id)
         r  == m4_trace_prepre(TraceState(trace, Window, Len(stack) + 1, "m4_trace_prepre"),
                               name, id)
     IN  /\ trace' = r.trace
         /\ out' = r.out
         /\ stack' = Append(stack, [id |-> id, name |-> name, argv |-> <<Text(name)>>,
                                    phase |-> "collect", lvls |-> <<debug_level>>])
         /\ next_id' = next_id + 1
         /\ last' = [op |-> "m4_trace_prepre", id |-> id, arg |-> name, ret |-> 0,
                     steps |-> r.steps, lvls |-> <<debug_level>>, pending |-> Len(trace)]
  /\ UNCHANGED <<debug_level, max_debug_argument_length, routerVars, diagVars>>

(* expand_macro () after collecting the arguments, before call_macro () *)
TraceBeforeExpansion(argv) ==
  /\ exited = NotExited
  /\ stack # <<>>
  /\ Top.phase = "collect"
  /\ LET r    == m4_trace_pre(TraceState(trace, Window, Len(stack), "m4_trace_pre"),
                              Top.name, Top.id, argv)
         lvls == Append(Top.lvls, debug_level)
     IN  /\ trace' = r.trace
         /\ out' = r.out
         /\ stack' = [stack EXCEPT ![Len(stack)] =
                        [@ EXCEPT !.argv = argv, !.phase = "expand", !.lvls = lvls]]
         /\ exited' = IF r.abort THEN Aborted ELSE exited
         /\ errlog' = IF r.abort
                      THEN Append(errlog, [format |-> "INTERNAL ERROR", errnum |-> 0,
                                           file |-> m4_current_file,
                                           line |-> m4_current_line])
                      ELSE errlog
         /\ last' = [op |-> "m4_trace_pre", id |-> Top.id, arg |-> argv,
                     ret |-> IF r.abort THEN Aborted ELSE 0,
                     steps |-> r.steps, lvls |-> lvls, pending |-> Len(trace)]
  /\ UNCHANGED <<debug_level, max_debug_argument_length, next_id, routerVars,
                 suppress_warnings, fatal_warnings, exit_status>>

(* expand_macro () after call_macro () *)
TraceAfterExpansion(expanded) ==
  /\ exited = NotExited
  /\ stack # <<>>
  /\ Top.phase \in {"expand", "expanded"}
  /\ LET r    == m4_trace_post(TraceState(trace, Window, Len(stack), "m4_trace_post"),
                               Top.name, Top.id, Top.argv, expanded)
         lvls == Append(Top.lvls, debug_level)
     IN  /\ trace' = r.trace
         /\ out' = r.out
         /\ stack' = SubSeq(stack, 1, Len(stack) - 1)
         /\ last' = [op |-> "m4_trace_post", id |-> Top.id,
                     arg |-> <<Top.name, Top.argv, expanded>>, ret |-> 0,
                     steps |-> r.steps, lvls |-> lvls, pending |-> Len(trace)]
  /\ UNCHANGED <<debug_level, max_debug_argument_length, next_id, routerVars, diagVars>>

(* The builtin debugmode, run by call_macro () for the invocation on top:  *)
(* the debug level is replaced only when the decode succeeds.              *)
DebugMode(opts) ==
  /\ exited = NotExited
  /\ stack # <<>>
  /\ Top.phase = "expand"
  /\ LET r == m4_debug_decode(trace, opts)
     IN  /\ trace' = r.trace
         /\ stack' = [stack EXCEPT ![Len(stack)] = [@ EXCEPT !.phase = "expanded"]]
         /\ debug_level' = IF r.ret = -1 THEN debug_level ELSE r.ret
         /\ last' = [op |-> "m4_debug_decode", id |-> 0, arg |-> opts, ret |-> r.ret,
                     steps |-> <<>>, lvls |-> <<debug_level>>, pending |-> Len(trace)]
  /\ UNCHANGED <<max_debug_argument_length, out, next_id, routerVars, diagVars>>

(* main () handing the argument of option -d to the decoder, before any   *)
(* macro is traced.                                                        *)
DecodeOption(opts) ==
  /\ exited = NotExited
  /\ last.op = "none"
  /\ stack = <<>>
  /\ LET r == m4_debug_decode(trace, opts)
     IN  /\ trace' = r.trace
         /\ debug_level' = IF r.ret = -1 THEN debug_level ELSE r.ret
         /\ last' = [op |-> "m4_debug_decode", id |-> 0, arg |-> opts, ret |-> r.ret,
                     steps |-> <<>>, lvls |-> <<debug_level>>, pending |-> Len(trace)]
  /\ UNCHANGED <<max_debug_argument_length, out, stack, next_id, routerVars, diagVars>>

InitRouter ==
  /\ m4_debug = stderr
  /\ fps = <<>>
  /\ std_closed = 0
  /\ stdout_stat = Stat(1, 1)
  /\ stderr_stat = Stat(1, 5)

(* The caller of m4_debug_set_output (option -o, builtin debugfile). *)
SetDestination(name) ==
  /\ exited = NotExited
  /\ name \in Openable => Len(fps) < MaxOpens
  /\ LET r == m4_debug_set_output(RouterState, name)
     IN  /\ m4_debug' = r.rs.m4_debug
         /\ fps' = r.rs.fps
         /\ std_closed' = r.rs.std_closed
         /\ last' = [op |-> "m4_debug_set_output", id |-> 0, arg |-> name, ret |-> r.ret,
                     steps |-> <<>>, lvls |-> <<>>, pending |-> Len(trace)]
  /\ UNCHANGED <<stdout_stat, stderr_stat, traceVars, diagVars>>

(* The callers of the diagnostic emitter.  No more than MaxMsgs messages   *)
(* are printed in a run.                                                   *)
DiagCall(op, ds, status, errnum, line) ==
  /\ exit_status' = ds.exit_status
  /\ exited' = ds.exited
  /\ errlog' = ds.errlog
  /\ last' = [op |-> op, id |-> 0,
              arg |-> [status |-> status, errnum |-> errnum, line |-> line,
                       printed |-> Len(errlog), exit_status |-> exit_status],
              ret |-> 0, steps |-> <<>>, lvls |-> <<>>, pending |-> Len(trace)]
  /\ UNCHANGED <<suppress_warnings, fatal_warnings, traceVars, routerVars>>

ReportError(status, errnum, line) ==
  /\ exited = NotExited
  /\ Len(errlog) < MaxMsgs
  /\ DiagCall("m4_error", m4_error(DiagState, status, errnum, line), status, errnum, line)

ReportErrorAtLine(status, errnum, line) ==
  /\ exited = NotExited
  /\ Len(errlog) < MaxMsgs
  /\ DiagCall("m4_error_at_line",
              m4_error_at_line(DiagState, status, errnum, "inc.m4", line),
              status, errnum, line)

ReportWarning(errnum, line) ==
  /\ exited = NotExited
  /\ Len(errlog) < MaxMsgs
  /\ DiagCall("m4_warn", m4_warn(DiagState, errnum, line, "warning"), 0, errnum, line)

ReportWarningAtLine(errnum, line) ==
  /\ exited = NotExited
  /\ Len(errlog) < MaxMsgs
  /\ DiagCall("m4_warn_at_line",
              m4_warn_at_line(DiagState, errnum, "inc.m4", line, "warning"),
              0, errnum, line)

InitDiag ==
  /\ suppress_warnings = FALSE
  /\ fatal_warnings = FALSE
  /\ exit_status = EXIT_SUCCESS
  /\ exited = NotExited
  /\ errlog = <<>>

InitTrace ==
  /\ trace = <<>>
  /\ out = <<>>
  /\ stack = <<>>
  /\ next_id = 1
  /\ last = NoCall

(* Tracing: the three entry points and the decoder, from any debug level.  *)
InitT ==
  /\ debug_level \in TraceLevels
  /\ max_debug_argument_length \in {0, MaxArgLen}
  /\ InitTrace /\ InitRouter /\ InitDiag

NextT ==
  \/ TraceBeforeArguments
  \/ \E argv \in CollectedArgs : TraceBeforeExpansion(argv)
  \/ \E expanded \in Expansions : TraceAfterExpansion(expanded)
  \/ \E opts \in TraceOpts : DebugMode(opts)

SpecTrace == InitT /\ [][NextT]_vars

(* Routing: destinations are set and trace lines printed, where standard  *)
(* output may be closed and standard error may be the file standard       *)
(* output is on.                                                           *)
DestinationNames == Openable \cup Unopenable \cup {NullStr, ""}

InitR ==
  /\ stdout_stat \in {Stat(1, 1), StatFails}
  /\ stderr_stat \in {Stat(1, 1), Stat(1, 5)}
  /\ LET r == m4_debug_init
     IN  m4_debug = r.m4_debug /\ fps = r.fps /\ std_closed = r.std_closed
  /\ debug_level = M4_DEBUG_TRACE_DEFAULT
  /\ max_debug_argument_length = 0
  /\ InitTrace /\ InitDiag

NextR ==
  \/ \E name \in DestinationNames : SetDestination(name)
  \/ TraceBeforeArguments

SpecRouter == InitR /\ [][NextR]_vars

(* Diagnostics: errors and warnings are reported, under any setting of the *)
(* two warning options.                                                    *)
Statuses == {EXIT_SUCCESS, EXIT_FAILURE, 2}
Errnums  == {0, 2}
Lines    == {0, m4_current_line}

InitE ==
  /\ suppress_warnings \in BOOLEAN
  /\ fatal_warnings \in BOOLEAN
  /\ exit_status = EXIT_SUCCESS
  /\ exited = NotExited
  /\ errlog = <<>>
  /\ debug_level = 0
  /\ max_debug_argument_length = 0
  /\ InitTrace /\ InitRouter

NextE ==
  \/ \E st \in Statuses, e \in Errnums, l \in Lines : ReportError(st, e, l)
  \/ \E st \in Statuses, e \in Errnums, l \in Lines : ReportErrorAtLine(st, e, l)
  \/ \E e \in Errnums, l \in Lines : ReportWarning(e, l)
  \/ \E e \in Errnums, l \in Lines : ReportWarningAtLine(e, l)

SpecDiag == InitE /\ [][NextE]_vars

(* Decoding: one flag string, of any characters, given to the decoder.     *)
FlagChars  == {"a", "e", "q", "t", "l", "f", "p", "c", "i", "x", "V"}
OtherChars == {"z", "+"}

RECURSIVE StringsUpTo(_, _)
StringsUpTo(n, chars) ==
  IF n = 0 THEN {""}
  ELSE LET P == StringsUpTo(n - 1, chars)
       IN  P \cup {s \o c : s \in P, c \in chars}

FlagStrings == StringsUpTo(MaxOptsLen, FlagChars \cup OtherChars) \cup {NullStr}

InitD ==
  /\ debug_level = 0
  /\ max_debug_argument_length = 0
  /\ InitTrace /\ InitRouter /\ InitDiag

NextD == \E opts \in FlagStrings : DecodeOption(opts)

SpecDecode == InitD /\ [][NextD]_vars

(* The builtins calling the argument helpers: one call of a helper, under  *)
(* any setting of the two warning options.                                 *)
MaxArgc    == 3    \* entries of an argument vector
MaxTextLen == 4    \* length of a text given to m4_numeric_arg

ArgCounts  == 0..MaxArgc
TextChars  == {" ", "\t", "4", "2", "x", "-"}
PaddedNumerals ==
  {l \o n \o t : l \in {"", " "}, t \in {"", "\t"},
                n \in {"2147483647", "2147483648", "-2147483648", "-2147483649",
                       "99999999999"}}
NumericTexts == StringsUpTo(MaxTextLen, TextChars) \cup PaddedNumerals
OutOfRange   == {INT_MAX, 0 - INT_MAX - 1, 0 - 1, 0}
DumpedArgs   == {"x", "", ", "}
Separators   == {", ", ",", ""}

RECURSIVE SeqsUpTo(_, _)
SeqsUpTo(n, S) ==
  IF n = 0 THEN {<<>>}
  ELSE LET P == SeqsUpTo(n - 1, S)
       IN  P \cup {Append(q, x) : q \in P, x \in S}

HelperCall(op, hs, arg) ==
  /\ exit_status' = hs.ds.exit_status
  /\ exited' = hs.ds.exited
  /\ errlog' = hs.ds.errlog
  /\ last' = [op |-> op, id |-> 0, arg |-> arg,
              ret |-> [ret |-> hs.ret, value |-> hs.value],
              steps |-> hs.warned, lvls |-> <<>>, pending |-> Len(trace)]
  /\ UNCHANGED <<suppress_warnings, fatal_warnings, traceVars, routerVars>>

BadArgc(argc, min, max, side_effect) ==
  /\ exited = NotExited
  /\ last.op = "none"
  /\ HelperCall("m4_bad_argc",
                m4_bad_argc(HelperState(DiagState), argc, "foo", min, max, side_effect),
                [argc |-> argc, min |-> min, max |-> max, side_effect |-> side_effect])

NumericArg(arg, wrapped) ==
  /\ exited = NotExited
  /\ last.op = "none"
  /\ HelperCall("m4_numeric_arg",
                m4_numeric_arg(HelperState(DiagState), "foo", arg, wrapped),
                [text |-> arg])

DumpArgs(argv, sep, quoted) ==
  /\ exited = NotExited
  /\ last.op = "none"
  /\ last' = [op |-> "m4_dump_args", id |-> 0,
              arg |-> [argv |-> argv, sep |-> sep, quoted |-> quoted],
              ret |-> m4_dump_args(<<>>, argv, sep, quoted, 1),
              steps |-> <<>>, lvls |-> <<>>, pending |-> Len(trace)]
  /\ UNCHANGED <<traceVars, routerVars, diagVars>>

InitA == InitE

NextA ==
  \/ \E argc \in 1..MaxArgc, min \in ArgCounts, max \in ArgCounts \cup {UINT_MAX},
        side_effect \in BOOLEAN : BadArgc(argc, min, max, side_effect)
  \/ \E arg \in NumericTexts, wrapped \in OutOfRange : NumericArg(arg, wrapped)
  \/ \E argv \in SeqsUpTo(MaxArgc, DumpedArgs), sep \in Separators, quoted \in BOOLEAN :
        DumpArgs(argv, sep, quoted)

SpecArgs == InitA /\ [][NextA]_vars

(* Formatting: one string argument given to the %S directive, under any    *)
(* length limit, with and without the verbose flag.                        *)
MaxLimit == 4    \* the largest max_debug_argument_length

FormatChars == {"x", "."}
FormatTexts == StringsUpTo(MaxLimit, FormatChars)

FormatS(s) ==
  /\ last.op = "none"
  /\ LET r == m4_trace_format(TraceState(trace, out, 0, "m4_trace_format"), 0, "%S", <<s>>)
     IN  /\ trace' = r.trace
         /\ last' = [op |-> "m4_trace_format", id |-> 0, arg |-> s,
                     ret |-> r.trace, steps |-> r.steps,
                     lvls |-> <<debug_level>>, pending |-> Len(trace)]
  /\ UNCHANGED <<debug_level, max_debug_argument_length, out, stack, next_id,
                 routerVars, diagVars>>

InitF ==
  /\ debug_level \in {0, M4_DEBUG_TRACE_VERBOSE}
  /\ max_debug_argument_length \in 0..MaxLimit
  /\ InitTrace /\ InitRouter /\ InitDiag

NextF == \E s \in FormatTexts : FormatS(s)

SpecFormat == InitF /\ [][NextF]_vars

----------------------------------------------------------------------------
(* What is stated about the printed lines.                                 *)

RECURSIVE LineText(_)
LineText(pieces) ==
  IF pieces = <<>> THEN "" ELSE Head(pieces).s \o LineText(Tail(pieces))

LineIds(line)  == {line.text[j].id  : j \in 1..Len(line.text)}
LineLvls(line) == {line.text[j].lvl : j \in 1..Len(line.text)}
LineOps(line)  == {line.text[j].op  : j \in 1..Len(line.text)}

StartsWith(s, t) == Len(s) >= Len(t) /\ (t = "" \/ SubSeq(s, 1, Len(t)) = t)
EndsWith(s, t) ==
  Len(s) >= Len(t) /\ (t = "" \/ SubSeq(s, Len(s) - Len(t) + 1, Len(s)) = t)

HasCall(lvl) == BitAnd(lvl, M4_DEBUG_TRACE_CALL) # 0
LinesOf(id)  == SelectSeq(out, LAMBDA l : l.id = id)
Flushes(steps) == Cardinality({i \in 1..Len(steps) : steps[i] = "flush"})

(* C1, as claimed: whatever the debug level and wherever a nested          *)
(* invocation interrupts the outer one, no printed line holds pieces of    *)
(* two invocations.                                                        *)
C1_NoLineMixesInvocations ==
  \A i \in 1..Len(out) : Cardinality(LineIds(out[i])) <= 1

(* C1, amended: a printed line holds a piece of an invocation other than   *)
(* the one that printed it only when that piece was left pending by a      *)
(* trace_before_expansion run without the 'trace calls' flag; and text is  *)
(* pending only between such a trace_before_expansion and the              *)
(* trace_after_expansion of the same invocation.  So with the flag set, or *)
(* with nesting before trace_before_expansion only, no line is mixed.      *)
C1_LinesMixOnlyPendingPreText ==
  /\ \A i \in 1..Len(out) : \A j \in 1..Len(out[i].text) :
       LET p == out[i].text[j]
       IN  p.id # out[i].id => p.op = "m4_trace_pre" /\ ~HasCall(p.lvl)
  /\ (exited = NotExited /\ trace # <<>>) =>
       /\ stack # <<>>
       /\ Top.phase \in {"expand", "expanded"}
       /\ \A j \in 1..Len(trace) :
            /\ trace[j].id = Top.id
            /\ trace[j].op = "m4_trace_pre"
            /\ ~HasCall(trace[j].lvl)

(* C1: an inner invocation has run to completion between the outer one's  *)
(* trace_before_expansion and trace_after_expansion, with the flag set,    *)
(* and the lines of both are there, unmixed.                               *)
C1_Witness ==
  /\ Len(stack) = 1
  /\ Top.phase = "expand"
  /\ HasCall(Top.lvls[2])
  /\ last.op = "m4_trace_post"
  /\ last.id # Top.id
  /\ Len(LinesOf(Top.id)) = 2
  /\ Len(LinesOf(last.id)) = 3
  /\ \A i \in 1..Len(out) : Cardinality(LineIds(out[i])) = 1

(* C2: when the three entry points of one invocation have all run with the *)
(* 'trace calls' flag set, that invocation has printed exactly three       *)
(* lines: the pre-arguments line "name ...", the call-start line ending in *)
(* " -> ???" and the call-end line; with level {call, args, expansion,     *)
(* quote}, arguments x and y and no length limit they read                 *)
(* name(<x>, <y>) -> ??? and name(...) -> <result>.                        *)
C2_ThreeLines ==
  (/\ last.op = "m4_trace_post"
   /\ m4_debug # NULL_FP
   /\ \A i \in 1..Len(last.lvls) : HasCall(last.lvls[i]))
  => LET L        == LinesOf(last.id)
         name     == last.arg[1]
         argv     == last.arg[2]
         expanded == last.arg[3]
         hdr      == "m4trace: -" \o sprintf_d(Len(stack) + 1) \o "- "
         aeqc     == M4_DEBUG_TRACE_ARGS + M4_DEBUG_TRACE_EXPANSION
                       + M4_DEBUG_TRACE_QUOTE + M4_DEBUG_TRACE_CALL
     IN  /\ Len(L) = 3
         /\ LineOps(L[1]) = {"m4_trace_prepre"}
         /\ EndsWith(LineText(L[1].text), name \o " ...")
         /\ LineOps(L[2]) = {"m4_trace_pre"}
         /\ EndsWith(LineText(L[2].text), " -> ???")
         /\ LineOps(L[3]) = {"m4_trace_post"}
         /\ \A i \in 1..3 : StartsWith(LineText(L[i].text), "m4trace:")
         /\ (/\ \A i \in 1..3 : last.lvls[i] = aeqc
             /\ argv = <<Text(name), Text("x"), Text("y")>>
             /\ expanded = "result"
             /\ max_debug_argument_length = 0)
            => /\ LineText(L[1].text) = hdr \o name \o " ..."
               /\ LineText(L[2].text) = hdr \o name \o "(<x>, <y>) -> ???"
               /\ LineText(L[3].text) = hdr \o name \o "(...) -> <result>"

(* C2: the lifecycle of the claim's example has just ended.                *)
C2_Witness ==
  /\ last.op = "m4_trace_post"
  /\ last.lvls = <<135, 135, 135>>
  /\ last.arg = <<"foo", <<Text("foo"), Text("x"), Text("y")>>, "result">>
  /\ max_debug_argument_length = 0
  /\ Len(LinesOf(last.id)) = 3
  /\ LineText(LinesOf(last.id)[2].text) = "m4trace: -1- foo(<x>, <y>) -> ???"

(* C3: trace_after_expansion flushes exactly once, as its last step, and   *)
(* returns with the trace buffer empty.                                    *)
C3_PostFlushesOnce ==
  last.op = "m4_trace_post" =>
    /\ Flushes(last.steps) = 1
    /\ last.steps[Len(last.steps)] = "flush"
    /\ trace = <<>>

(* C3: trace_after_expansion has returned having had nothing to format: no *)
(* 'trace calls' flag, no result text, nothing pending.                    *)
C3_Witness ==
  /\ last.op = "m4_trace_post"
  /\ ~HasCall(debug_level)
  /\ last.arg[3] = NullStr
  /\ Len(last.arg[2]) > 1
  /\ last.pending = 0
  /\ last.steps = <<"flush">>

(* C4: after a successful decode the trace buffer is empty, and no printed *)
(* line holds pieces formatted under two debug levels.                     *)
C4_DecodeDiscardsPending ==
  /\ (last.op = "m4_debug_decode" /\ last.ret # -1) => trace = <<>>
  /\ \A i \in 1..Len(out) : Cardinality(LineLvls(out[i])) <= 1

(* C4: a decode has succeeded and changed the level while text was         *)
(* pending.                                                                *)
C4_Witness ==
  /\ last.op = "m4_debug_decode"
  /\ last.ret # -1
  /\ last.pending > 0
  /\ last.ret # last.lvls[1]
  /\ trace = <<>>

(* What is stated about the decoder.                                       *)

Chars(s) == {SubSeq(s, i, i) : i \in 1..Len(s)}

(* The letter / flag table of the debug level. *)
LetterFlag(c) ==
  CASE c = "a" -> M4_DEBUG_TRACE_ARGS
    [] c = "e" -> M4_DEBUG_TRACE_EXPANSION
    [] c = "q" -> M4_DEBUG_TRACE_QUOTE
    [] c = "t" -> M4_DEBUG_TRACE_ALL
    [] c = "l" -> M4_DEBUG_TRACE_LINE
    [] c = "f" -> M4_DEBUG_TRACE_FILE
    [] c = "p" -> M4_DEBUG_TRACE_PATH
    [] c = "c" -> M4_DEBUG_TRACE_CALL
    [] c = "i" -> M4_DEBUG_TRACE_INPUT
    [] c = "x" -> M4_DEBUG_TRACE_CALLID
    [] c = "V" -> M4_DEBUG_TRACE_VERBOSE

Decoded == last.op = "m4_debug_decode" /\ last.arg # NullStr

(* C5: a flag string holding a character that is no flag letter is         *)
(* rejected, wherever the character stands: -1 is returned and the debug   *)
(* level is left as it was.                                                *)
C5_UnknownCharFails ==
  (Decoded /\ Chars(last.arg) \ FlagChars # {}) =>
     /\ last.ret = -1
     /\ debug_level = last.lvls[1]

(* C5: strings with the unknown character first, in the middle and last    *)
(* are among those decoded.                                                *)
C5_Witness ==
  /\ Decoded
  /\ last.arg \in {"az", "za", "aza"}
  /\ last.ret = -1

(* C6: an absent or empty flag string gives the default level; a string of *)
(* flag letters gives the union of the flags of its letters and no other   *)
(* bit, whatever their order and however often they are repeated.          *)
C6_DecodeIsUnionOfFlags ==
  last.op = "m4_debug_decode" =>
    /\ last.arg \in {NullStr, ""} => last.ret = M4_DEBUG_TRACE_DEFAULT
    /\ (last.arg \notin {NullStr, ""} /\ Chars(last.arg) \subseteq FlagChars) =>
         /\ last.ret = SumOf({LetterFlag(c) : c \in Chars(last.arg)})
         /\ debug_level = last.ret

(* C6: "al" and a permutation of it with a repeated letter are decoded.    *)
C6_Witness ==
  /\ last.op = "m4_debug_decode"
  /\ last.arg \in {"al", "lal"}
  /\ last.ret = M4_DEBUG_TRACE_ARGS + M4_DEBUG_TRACE_LINE

(* What is stated about the debug output router.                           *)

Handles      == {i + 2 : i \in 1..Len(fps)}
OpenHandles  == {h \in Handles : fps[h - 2].open}
SameFile(a, b) == a.ok /\ b.ok /\ a.st_ino = b.st_ino /\ a.st_dev = b.st_dev

(* C7: a set_destination call with a name that cannot be opened returns    *)
(* FALSE and leaves the destination, the opened streams and the standard   *)
(* streams as they were.                                                   *)
C7_OpenFailureKeepsDestination ==
  [][(last'.op = "m4_debug_set_output" /\ last'.arg \in Unopenable) =>
       /\ last'.ret = FALSE
       /\ UNCHANGED <<m4_debug, fps, std_closed>>]_vars

(* C7: the call has failed while an opened file was the destination, and   *)
(* the file still is, open.                                                *)
C7_Witness ==
  /\ last.op = "m4_debug_set_output"
  /\ last.arg \in Unopenable
  /\ last.ret = FALSE
  /\ m4_debug \in OpenHandles

(* C8: the destination is the null stream, a standard stream or the stream *)
(* opened last; every opened stream that is not the destination has been   *)
(* closed exactly once, the destination not at all; standard output and    *)
(* standard error are never closed; at most one opened stream is open.     *)
C8_OneLiveStream ==
  /\ m4_debug \in {NULL_FP, stdout, stderr} \cup Handles
  /\ std_closed = 0
  /\ \A h \in Handles :
       IF h = m4_debug
       THEN fps[h - 2].open /\ fps[h - 2].closes = 0
       ELSE ~fps[h - 2].open /\ fps[h - 2].closes = 1
  /\ Cardinality(OpenHandles) <= 1

(* C8: a second file has replaced a first one, which is closed.            *)
C8_Witness ==
  /\ Len(fps) = 2
  /\ m4_debug = 4
  /\ fps[1].closes = 1
  /\ fps[2].open

(* The stream the last set_destination call selected. *)
Selected == IF last.arg = NullStr THEN stderr ELSE Len(fps) + 2
Selecting ==
  last.op = "m4_debug_set_output" /\ last.ret = TRUE /\ last.arg # ""

(* C9: when the selected stream and standard output have the same device   *)
(* and inode, the destination is standard output and the opened stream is  *)
(* closed; otherwise the selected stream is the destination; and a trace   *)
(* line is printed on the stream that is the destination.                  *)
C9_AliasesStandardOutput ==
  /\ Selecting =>
       IF SameFile(fstat(RouterState, Selected), stdout_stat)
       THEN /\ m4_debug = stdout
            /\ Selected # stderr => ~fps[Selected - 2].open
       ELSE /\ m4_debug = Selected
            /\ Selected # stderr => fps[Selected - 2].open
  /\ (last.op = "m4_trace_prepre" /\ m4_debug # NULL_FP) =>
       /\ out # <<>>
       /\ out[Len(out)].fp = m4_debug

(* C9: a file that is the file standard output is on was selected, and a   *)
(* trace line printed after that went to standard output.                  *)
C9_Witness ==
  /\ last.op = "m4_trace_prepre"
  /\ fps # <<>>
  /\ fps[Len(fps)].name = "/dev/stdout"
  /\ ~fps[Len(fps)].open
  /\ m4_debug = stdout
  /\ out[Len(out)].fp = stdout

(* What is stated about the diagnostic emitter.                            *)

ErrorOps == {"m4_error", "m4_error_at_line"}
ErrorPrinted == \E i \in 1..Len(errlog) : errlog[i].format = "error"

(* C10: report_error prints its message and then ends the process when     *)
(* status is non-zero or fatal-warnings is set, with status or, status     *)
(* being zero, with failure; otherwise it returns with the exit status set *)
(* to failure.  While the process runs after an error was reported, the    *)
(* exit status is failure, whatever errors and warnings were reported      *)
(* since.                                                                  *)
C10_ErrorFailureIsSticky ==
  /\ last.op \in ErrorOps =>
       /\ Len(errlog) = last.arg.printed + 1
       /\ errlog[Len(errlog)].format = "error"
       /\ IF last.arg.status # 0 \/ fatal_warnings
          THEN exited = (IF last.arg.status # 0 THEN last.arg.status ELSE EXIT_FAILURE)
          ELSE exited = NotExited /\ exit_status = EXIT_FAILURE
  /\ (exited = NotExited /\ ErrorPrinted) => exit_status = EXIT_FAILURE

(* C10: an error was reported and returned, a warning and a second error   *)
(* followed, and the exit status is failure.                               *)
C10_Witness ==
  /\ Len(errlog) = 3
  /\ errlog[1].format = "error"
  /\ errlog[2].format = "Warning: warning"
  /\ last.op = "m4_error_at_line"
  /\ exited = NotExited
  /\ exit_status = EXIT_FAILURE

----------------------------------------------------------------------------
(* What is stated about the warnings.                                      *)

WarnOps == {"m4_warn", "m4_warn_at_line"}

(* C11, as claimed: under fatal-warnings every call of report_warning or   *)
(* of its explicit-location variant ends the process with failure status,  *)
(* whatever the other options are.                                         *)
C11_EveryWarningIsFatal ==
  (last.op \in WarnOps /\ fatal_warnings) => exited = EXIT_FAILURE

(* C11: under fatal-warnings a call of report_warning or of its            *)
(* explicit-location variant made while warnings are not suppressed prints *)
(* its message and ends the process with failure status; made while        *)
(* warnings are suppressed it prints nothing and returns.                  *)
C11_UnsuppressedWarningIsFatal ==
  (last.op \in WarnOps /\ fatal_warnings) =>
     IF suppress_warnings
     THEN exited = NotExited /\ Len(errlog) = last.arg.printed
     ELSE /\ exited = EXIT_FAILURE
          /\ Len(errlog) = last.arg.printed + 1
          /\ errlog[Len(errlog)].format = "Warning: warning"

(* C11: a warning reported under fatal-warnings while warnings are not     *)
(* suppressed: its message is printed and the process has ended with       *)
(* failure status.                                                         *)
C11_Witness ==
  /\ last.op = "m4_warn"
  /\ fatal_warnings /\ ~suppress_warnings
  /\ exited = EXIT_FAILURE
  /\ Len(errlog) = 1

(* C12: report_warning and its explicit-location variant print nothing     *)
(* while warnings are suppressed, and when the call returns the exit       *)
(* status is the one it was before the call.                               *)
C12_WarningKeepsExitStatus ==
  last.op \in WarnOps =>
    /\ suppress_warnings => Len(errlog) = last.arg.printed
    /\ exited = NotExited => exit_status = last.arg.exit_status

(* C12: a suppressed warning after an error that returned: nothing more is *)
(* printed and the exit status is still failure; without the error it      *)
(* would still be success.                                                 *)
C12_Witness ==
  /\ last.op = "m4_warn_at_line"
  /\ suppress_warnings
  /\ exited = NotExited
  /\ Len(errlog) = 1
  /\ last.arg.exit_status = EXIT_FAILURE
  /\ exit_status = EXIT_FAILURE

----------------------------------------------------------------------------
(* What is stated about the argument helpers.                              *)

Contains(s, t) ==
  \E i \in 1..(Len(s) - Len(t) + 1) : SubSeq(s, i, i + Len(t) - 1) = t

(* What one call of m4_warn with the message msg leaves behind: the line   *)
(* printed unless warnings are suppressed, and the process ended when      *)
(* warnings are fatal and not suppressed.                                  *)
WarnedOnce(msg) ==
  /\ last.steps = <<msg>>
  /\ errlog = IF suppress_warnings THEN <<>>
              ELSE <<[format |-> "Warning: " \o msg, errnum |-> 0,
                      file |-> m4_current_file, line |-> m4_current_line]>>
  /\ exited = IF fatal_warnings /\ ~suppress_warnings THEN EXIT_FAILURE ELSE NotExited

WarnedNever == last.steps = <<>> /\ errlog = <<>> /\ exited = NotExited

(* C13: with argc - 1 < min, validate_argument_count calls report_warning  *)
(* exactly once, with the "too few arguments" message and with no "extra   *)
(* arguments" message, and when the call returns it returns the negation   *)
(* of has_side_effect.                                                     *)
C13_TooFewWarnsOnce ==
  (last.op = "m4_bad_argc" /\ last.arg.argc - 1 < last.arg.min) =>
    /\ Len(last.steps) = 1
    /\ WarnedOnce(last.steps[1])
    /\ Contains(last.steps[1], "too few arguments")
    /\ ~Contains(last.steps[1], "extra arguments")
    /\ exited = NotExited => last.ret.ret = ~last.arg.side_effect

(* C13: a macro without side effects called with no argument where one is  *)
(* needed: the warning is printed and the answer is true.                  *)
C13_Witness ==
  /\ last.op = "m4_bad_argc"
  /\ last.arg.argc = 1 /\ last.arg.min = 1 /\ ~last.arg.side_effect
  /\ errlog # <<>>
  /\ errlog[1].format = "Warning: foo: too few arguments: 0 < 1"
  /\ exited = NotExited
  /\ last.ret.ret = TRUE

(* C14, as claimed: with argc - 1 > max, whatever min is, one "extra        *)
(* arguments" warning is issued and the answer is false.                   *)
C14_ExtraWarnsOnce ==
  (last.op = "m4_bad_argc" /\ last.arg.argc - 1 > last.arg.max) =>
    /\ Len(last.steps) = 1
    /\ Contains(last.steps[1], "extra arguments")
    /\ exited = NotExited => last.ret.ret = FALSE

(* C14: with argc - 1 > max and argc - 1 >= min, validate_argument_count   *)
(* calls report_warning exactly once, with the "extra arguments" message,  *)
(* and when the call returns it returns false; with argc - 1 > max and     *)
(* argc - 1 < min the only warning is the "too few arguments" one.         *)
C14_ExtraWarnsOnceWhenNotTooFew ==
  (last.op = "m4_bad_argc" /\ last.arg.argc - 1 > last.arg.max) =>
    /\ Len(last.steps) = 1
    /\ WarnedOnce(last.steps[1])
    /\ IF last.arg.argc - 1 >= last.arg.min
       THEN /\ Contains(last.steps[1], "extra arguments")
            /\ ~Contains(last.steps[1], "too few arguments")
            /\ exited = NotExited => last.ret.ret = FALSE
       ELSE /\ Contains(last.steps[1], "too few arguments")
            /\ ~Contains(last.steps[1], "extra arguments")

(* C14: a macro with side effects called with two arguments where one is   *)
(* the most: the warning is printed and the answer is false.               *)
C14_Witness ==
  /\ last.op = "m4_bad_argc"
  /\ last.arg.argc = 3 /\ last.arg.min = 0 /\ last.arg.max = 1 /\ last.arg.side_effect
  /\ errlog # <<>>
  /\ errlog[1].format = "Warning: foo: extra arguments ignored: 2 > 1"
  /\ exited = NotExited
  /\ last.ret.ret = FALSE

(* The texts the statements about parse_numeric_argument speak of.         *)
RECURSIVE TrimLeft(_)
TrimLeft(s) == IF s # "" /\ First(s) \in Whitespace THEN TrimLeft(Rest(s)) ELSE s

RECURSIVE TrimRight(_)
TrimRight(s) ==
  IF s # "" /\ SubSeq(s, Len(s), Len(s)) \in Whitespace
  THEN TrimRight(SubSeq(s, 1, Len(s) - 1))
  ELSE s

AllDigits(s) == \A i \in 1..Len(s) : \E k \in 0..9 : SubSeq(s, i, i) = Digit(k)
Unsigned(s)  == IF s # "" /\ First(s) \in {"-", "+"} THEN Rest(s) ELSE s
IsNumeral(s) == Unsigned(s) # "" /\ AllDigits(Unsigned(s))

(* The text is white space, a decimal number, white space. *)
PaddedNumber(text) == IsNumeral(TrimRight(TrimLeft(text)))

(* The number of digits a text begins with. *)
RECURSIVE DigitsAhead(_)
DigitsAhead(s) ==
  IF s # "" /\ AllDigits(First(s)) THEN 1 + DigitsAhead(Rest(s)) ELSE 0

(* The text is white space and a decimal number, followed by something     *)
(* that is not only white space.                                           *)
GarbageAfterNumber(text) ==
  LET body == Unsigned(TrimLeft(text))
      n    == DigitsAhead(body)
  IN  n > 0 /\ TrimLeft(SubSeq(body, n + 1, Len(body))) # ""

(* a <= b for two strings of digits of one length. *)
RECURSIVE DigitsLeq(_, _)
DigitsLeq(a, b) ==
  \/ a = ""
  \/ DigitValue(First(a)) < DigitValue(First(b))
  \/ First(a) = First(b) /\ DigitsLeq(Rest(a), Rest(b))

(* An int holds the number of the numeral. *)
FitsInt(num) ==
  LET ds == Unsigned(num)
  IN  \/ Len(ds) < 10
      \/ Len(ds) = 10 /\ DigitsLeq(ds, IF First(num) = "-" THEN "2147483648"
                                                            ELSE "2147483647")

RECURSIVE NegatedValue(_, _)
NegatedValue(ds, acc) ==
  IF ds = "" THEN acc ELSE NegatedValue(Rest(ds), acc * 10 - DigitValue(First(ds)))

(* The number of a numeral an int holds. *)
NumeralValue(num) ==
  IF First(num) = "-" THEN NegatedValue(Unsigned(num), 0)
  ELSE 0 - NegatedValue(Unsigned(num), 0)

TextNumeral == TrimRight(TrimLeft(last.arg.text))

(* C15, as claimed: every text made of white space, a decimal number and   *)
(* white space is converted to that number without a warning; every text   *)
(* with something other than white space after the number gets one         *)
(* warning and failure.                                                    *)
C15_PaddedNumberConverts ==
  last.op = "m4_numeric_arg" =>
    /\ PaddedNumber(last.arg.text) =>
         /\ WarnedNever
         /\ last.ret.ret = TRUE
         /\ FitsInt(TextNumeral)
         /\ last.ret.value = NumeralValue(TextNumeral)
    /\ GarbageAfterNumber(last.arg.text) =>
         /\ Len(last.steps) = 1
         /\ exited = NotExited => last.ret.ret = FALSE

(* C15: every text made of white space, a decimal number and white space   *)
(* is accepted without a warning, and the value stored is that number when *)
(* an int holds it; every text with something other than white space after *)
(* the number makes one call of report_warning, with the "non-numeric      *)
(* argument" message, and when that call returns the answer is failure.    *)
C15_PaddedIntConverts ==
  last.op = "m4_numeric_arg" =>
    /\ PaddedNumber(last.arg.text) =>
         /\ WarnedNever
         /\ last.ret.ret = TRUE
         /\ FitsInt(TextNumeral) => last.ret.value = NumeralValue(TextNumeral)
    /\ GarbageAfterNumber(last.arg.text) =>
         /\ WarnedOnce("foo: non-numeric argument " \o last.arg.text)
         /\ exited = NotExited => last.ret.ret = FALSE

(* C15: "\t-42 " was converted to -42 without a warning.                   *)
C15_Witness ==
  /\ last.op = "m4_numeric_arg"
  /\ last.arg.text = "\t-42"
  /\ last.ret.ret = TRUE
  /\ last.ret.value = 0 - 42
  /\ errlog = <<>>

(* C16: parse_numeric_argument on the empty text stores 0, makes exactly   *)
(* one call of report_warning, with the "empty string treated as 0"        *)
(* message, and when that call returns the answer is success.              *)
C16_EmptyTextIsZero ==
  (last.op = "m4_numeric_arg" /\ last.arg.text = "") =>
    /\ last.ret.value = 0
    /\ WarnedOnce("foo: empty string treated as 0")
    /\ exited = NotExited => last.ret.ret = TRUE

(* C16: the empty text was given, the warning is printed and the answer is *)
(* success with the value 0.                                               *)
C16_Witness ==
  /\ last.op = "m4_numeric_arg"
  /\ last.arg.text = ""
  /\ errlog # <<>>
  /\ errlog[1].format = "Warning: foo: empty string treated as 0"
  /\ exited = NotExited
  /\ last.ret = [ret |-> TRUE, value |-> 0]

(* The pieces of an obstack that a statement of one kind has grown. *)
PiecesOf(obs, what) == SelectSeq(obs, LAMBDA q : q.what = what)
Quoted(a, quoted) == IF quoted THEN lquote \o a \o rquote ELSE a

(* C17: join_arguments appends the arguments 1 .. argc - 1 in order and    *)
(* never argument 0, each between the quote strings on its own when quoted *)
(* is true, with max (argc - 2, 0) copies of the separator, each of them   *)
(* between two consecutive arguments.                                      *)
C17_SeparatorsOnlyBetween ==
  last.op = "m4_dump_args" =>
    LET obs  == last.ret
        argv == last.arg.argv
        argc == Len(argv)
        args == PiecesOf(obs, "arg")
        seps == PiecesOf(obs, "sep")
    IN  /\ Len(args) = IF argc > 1 THEN argc - 1 ELSE 0
        /\ \A i \in 1..Len(args) :
             args[i].i = i /\ args[i].s = Quoted(argv[i + 1], last.arg.quoted)
        /\ Len(seps) = IF argc > 2 THEN argc - 2 ELSE 0
        /\ \A k \in 1..Len(obs) :
             obs[k].what = "sep" =>
               /\ obs[k].s = last.arg.sep
               /\ 1 < k /\ k < Len(obs)
               /\ obs[k - 1].what = "arg" /\ obs[k + 1].what = "arg"
               /\ obs[k + 1].i = obs[k - 1].i + 1

(* C17: two arguments, the first empty and the second the text of the      *)
(* separator, joined with quotes.                                          *)
C17_Witness ==
  /\ last.op = "m4_dump_args"
  /\ last.arg = [argv |-> <<"x", "", ", ">>, sep |-> ", ", quoted |-> TRUE]
  /\ LineText(last.ret) = "<>, <, >"

----------------------------------------------------------------------------
(* What is stated about the %S directive.                                  *)

(* C18, as claimed: %S with the limit L and a string of length n copies    *)
(* the first L characters and an ellipsis when L is not zero and L < n,    *)
(* and copies the string in full with no ellipsis when L = 0 or L >= n,    *)
(* L = n included.                                                         *)
C18_EllipsisOnlyWhenTruncated ==
  last.op = "m4_trace_format" =>
    LET L == max_debug_argument_length
        n == Len(last.arg)
    IN  LineText(last.ret) = IF L # 0 /\ L < n
                   THEN SubSeq(last.arg, 1, L) \o "..."
                   ELSE last.arg

(* C18: what %S grows: an ellipsis follows whenever L is not zero and      *)
(* L <= n, so also after a string of exactly L characters, of which none   *)
(* was left out.                                                           *)
C18_EllipsisAlsoAtTheLimit ==
  last.op = "m4_trace_format" =>
    LET L == max_debug_argument_length
        n == Len(last.arg)
    IN  LineText(last.ret) = IF L # 0 /\ L <= n
                   THEN SubSeq(last.arg, 1, L) \o "..."
                   ELSE last.arg

(* C18: a string of exactly L characters was formatted, and an ellipsis    *)
(* follows it.                                                             *)
C18_Witness ==
  /\ last.op = "m4_trace_format"
  /\ max_debug_argument_length = 2
  /\ last.arg = "xx"
  /\ LineText(last.ret) = "xx..."

----------------------------------------------------------------------------
(* What is stated about text left pending in the trace buffer.             *)

Headers(pieces) == Len(SelectSeq(pieces, LAMBDA q : q.s = "m4trace:"))
LastLineOf(id)  == LinesOf(id)[Len(LinesOf(id))]
ShowsArgs(argv) == Len(argv) > 1 /\ BitAnd(debug_level, M4_DEBUG_TRACE_ARGS) # 0
ShowsResult(expanded) ==
  expanded # NullStr /\ BitAnd(debug_level, M4_DEBUG_TRACE_EXPANSION) # 0

(* What trace_before_expansion does when it returns: with the 'trace       *)
(* calls' flag it flushes once and leaves the buffer empty; without it     *)
(* nothing is written and header, name and arguments of the call are       *)
(* pending.                                                                *)
PreFlushesIffCall ==
  (last.op = "m4_trace_pre" /\ last.ret = 0) =>
    IF HasCall(debug_level)
    THEN /\ Flushes(last.steps) = 1
         /\ trace = <<>>
         /\ Len(LinesOf(last.id)) = 2
    ELSE /\ Flushes(last.steps) = 0
         /\ Len(LinesOf(last.id)) = 1
         /\ trace # <<>>
         /\ \A j \in 1..Len(trace) :
              trace[j].id = last.id /\ trace[j].op = "m4_trace_pre"
         /\ Headers(trace) = 1
         /\ StartsWith(LineText(trace), "m4trace:")
         /\ EndsWith(LineText(trace),
                     IF ShowsArgs(last.arg) THEN ")" ELSE MacroName(last.id))

(* C19, as claimed: trace_before_expansion flushes if and only if the      *)
(* 'trace calls' flag is set, and the line the following                   *)
(* trace_after_expansion of the same call writes begins with the text      *)
(* trace_before_expansion left pending and has one header.                 *)
C19_PostCompletesPendingLine ==
  /\ PreFlushesIffCall
  /\ (last.op = "m4_trace_post" /\ ~HasCall(last.lvls[2])) =>
       /\ Headers(LastLineOf(last.id).text) = 1
       /\ LastLineOf(last.id).text[1].op = "m4_trace_pre"
       /\ LastLineOf(last.id).text[1].id = last.id

(* C19: trace_before_expansion flushes if and only if the 'trace calls'    *)
(* flag is set; and when the flag is clear and the next call of the trace  *)
(* functions or of the decoder is the trace_after_expansion of the same    *)
(* call, that call writes one line: the pending text, followed by the      *)
(* result when the result is shown, with one header.                       *)
C19_NextPostCompletesPendingLine ==
  [][/\ PreFlushesIffCall'
     /\ (/\ last.op = "m4_trace_pre" /\ last.ret = 0 /\ ~HasCall(debug_level)
         /\ last'.op = "m4_trace_post")
        => /\ last'.id = last.id
           /\ Len(out') = Len(Window) + 1
           /\ SubSeq(out', 1, Len(Window)) = Window
           /\ LET line == out'[Len(out')].text
              IN  /\ SubSeq(line, 1, Len(trace)) = trace
                  /\ Headers(line) = 1
                  /\ StartsWith(LineText(line), "m4trace:")
                  /\ LineText(line) =
                       LineText(trace)
                         \o (IF ShowsResult(last'.arg[3])
                             THEN " -> " \o (IF Level(M4_DEBUG_TRACE_QUOTE)
                                             THEN lquote ELSE "")
                                         \o grow_limited(last'.arg[3],
                                                          max_debug_argument_length)
                                         \o (IF Level(M4_DEBUG_TRACE_QUOTE)
                                             THEN rquote ELSE "")
                             ELSE "")]_vars

(* C19: a call traced at level {args, expansion, quote}: its               *)
(* trace_after_expansion has written header, name, arguments and result as *)
(* its second line.                                                        *)
C19_Witness ==
  /\ last.op = "m4_trace_post"
  /\ last.lvls = <<7, 7, 7>>
  /\ max_debug_argument_length = 0
  /\ Len(LinesOf(last.id)) = 2
  /\ LineText(LastLineOf(last.id).text) = "m4trace: -1- foo(<x>, <y>) -> <result>"

(* C20: a decode that fails leaves the trace buffer, the debug level and   *)
(* the printed lines as they were, and the line flushed next begins with   *)
(* the text that was pending.                                              *)
C20_FailedDecodeKeepsPending ==
  [][/\ (last'.op = "m4_debug_decode" /\ last'.ret = -1) =>
          /\ trace' = trace
          /\ debug_level' = debug_level
          /\ out' = out
     /\ (/\ last.op = "m4_debug_decode" /\ last.ret = -1
         /\ Flushes(last'.steps) > 0)
        => /\ Len(out') = Len(Window) + 1
           /\ SubSeq(out'[Len(out')].text, 1, Len(trace)) = trace]_vars

(* C20: a decode has failed while the text of a trace_before_expansion was *)
(* pending, and the text is still in the buffer.                           *)
C20_Witness ==
  /\ last.op = "m4_debug_decode"
  /\ last.ret = -1
  /\ last.pending > 0
  /\ Len(trace) = last.pending
  /\ \A j \in 1..Len(trace) : trace[j].op = "m4_trace_pre"

----------------------------------------------------------------------------
(* What is stated about the header of the printed lines.                   *)

OneHeader(line) ==
  Headers(line.text) = 1 /\ StartsWith(LineText(line.text), "m4trace:")

(* The lifecycle that has just ended was not nested in another one, had    *)
(* none nested in it, and its three calls ran at one debug level.          *)
PlainLifecycle ==
  /\ last.op = "m4_trace_post"
  /\ stack = <<>>
  /\ next_id = last.id + 1
  /\ \A i \in 1..Len(last.lvls) : last.lvls[i] = last.lvls[1]

(* C21, as claimed: when lifecycles are not nested and the debug level is  *)
(* the same at each call, every line of a complete lifecycle begins with   *)
(* "m4trace:" and holds one header, with and without the 'trace calls'     *)
(* flag.                                                                   *)
C21_EveryLineHasOneHeader ==
  PlainLifecycle =>
    \A i \in 1..Len(LinesOf(last.id)) : OneHeader(LinesOf(last.id)[i])

(* C21: when lifecycles are not nested, the debug level is the same at     *)
(* each call and no decode has succeeded between trace_before_expansion    *)
(* and trace_after_expansion, every line of a complete lifecycle begins    *)
(* with "m4trace:" and holds one header, with and without the 'trace       *)
(* calls' flag.  When a decode has succeeded in between and the flag is    *)
(* clear, the last line holds no header, even if the decode has set the    *)
(* level it found.                                                         *)
C21_OneHeaderUnlessDecoded ==
  [][PlainLifecycle' =>
       IF last.op = "m4_debug_decode" /\ last.ret # -1
       THEN ~HasCall(debug_level) =>
              Headers(out'[Len(out')].text) = 0
       ELSE /\ last.op \in {"m4_trace_pre", "m4_debug_decode"}
            /\ LET L == SelectSeq(out', LAMBDA l : l.id = last'.id)
               IN  /\ Len(L) = IF HasCall(debug_level) THEN 3 ELSE 2
                   /\ \A i \in 1..Len(L) : OneHeader(L[i])]_vars

(* C21: the second of two lifecycles run one after the other has ended,    *)
(* without the 'trace calls' flag, and each of its two lines has one       *)
(* header.                                                                 *)
C21_Witness ==
  /\ PlainLifecycle
  /\ last.id = 2
  /\ ~HasCall(debug_level)
  /\ last.arg[3] = "result"
  /\ Len(LinesOf(last.id)) = 2
  /\ \A i \in 1..2 : OneHeader(LinesOf(last.id)[i])

====
